---- MODULE Spec2Model ----
(***************************************************************************)
(* Model of main.py: one-time index provisioning at import, the            *)
(* query-engine setup, the health endpoint and the /chat endpoint with     *)
(* its asyncio.Semaphore(2) admission gate and its three response streams. *)
(* Every action is one run of a coroutine between two suspension points of *)
(* the single-threaded event loop.                                         *)
(***************************************************************************)
EXTENDS Integers, Sequences, FiniteSets, TLC

\* ---------------------------------------------------------------- bounds
NumReqs == 3          \* chat requests that may arrive
MaxLen == 2           \* longest message string that is enumerated
MaxTokens == 2        \* most tokens one response generator yields

Reqs == 1..NumReqs

VARIABLES
    spc,            \* position of the module-level start-up code
    storage_exists, \* Path(STORAGE_DIR).exists()
    index,          \* global index: "unbound", "None" or "Index"
    query_engine,   \* global query_engine: "unbound", "None" or "Engine"
    setup_raised,   \* an exception was raised inside the provisioning try
    sem_value,      \* semaphore._value
    sem_waiters,    \* semaphore._waiters, oldest first
    sem_woken,      \* waiters whose future has been resolved
    pc,             \* position of each chat request
    body,           \* what request.json() produced for the request
    status,         \* HTTP status sent for the request (0: none yet)
    out,            \* the response stream sent so far
    produced,       \* tokens the engine's response_gen has handed out
    queries,        \* calls of query_engine.query made for the request
    fin,            \* how event_stream ended: "", "exhausted", "raised"
    suspended       \* requests inside chat that had to wait for their slot

vars == <<spc, storage_exists, index, query_engine, setup_raised,
          sem_value, sem_waiters, sem_woken, pc, body, status, out,
          produced, queries, fin, suspended>>

startupVars == <<spc, storage_exists, index, query_engine, setup_raised>>
semVars == <<sem_value, sem_waiters, sem_woken>>
reqVars == <<pc, body, status, out, produced, queries, fin, suspended>>

\* ------------------------------------------------------- stream contents
Text(s) == [text |-> s, ord |-> 0]
Token(i) == [text |-> "token", ord |-> i]

\* the three fixed texts, without their leading emoji
INDEX_ERROR == Text("Error: The document index is not available.")
VALIDATION_ERROR == Text("Please ask a valid question.")
APOLOGY == Text("Sorry, an error occurred while processing your request.")

\* ------------------------------------------------------------- messages
Chars == {" ", "a"}
Strings == UNION {[1..n -> Chars] : n \in 0..MaxLen}

RECURSIVE lstrip(_)
lstrip(s) == IF s # <<>> /\ Head(s) = " " THEN lstrip(Tail(s)) ELSE s

RECURSIVE rstrip(_)
rstrip(s) ==
    IF s # <<>> /\ s[Len(s)] = " " THEN rstrip(SubSeq(s, 1, Len(s) - 1)) ELSE s

\* str.strip()
strip(s) == rstrip(lstrip(s))

\* JSON values a "message" key can carry
Str(s) == [type |-> "str", str |-> s, num |-> 0]
Int0(n) == [type |-> "int", str |-> <<>>, num |-> n]
Null == [type |-> "null", str |-> <<>>, num |-> 0]
MsgValues == {Str(s) : s \in Strings} \cup {Int0(5), Null}

\* request bodies: not JSON at all, a JSON array, an object with or
\* without the "message" key
Unread == [json |-> "unread", has |-> FALSE, msg |-> Null]
Bodies ==
    {[json |-> "invalid", has |-> FALSE, msg |-> Null],
     [json |-> "array", has |-> FALSE, msg |-> Null],
     [json |-> "object", has |-> FALSE, msg |-> Null]}
    \cup {[json |-> "object", has |-> TRUE, msg |-> m] : m \in MsgValues}

\* body.get("message", "")
get_message(b) == IF b.has THEN b.msg ELSE Str(<<>>)

\* Python truth value of the message
Truthy(q) ==
    CASE q.type = "str" -> q.str # <<>>
      [] q.type = "int" -> q.num # 0
      [] OTHER -> FALSE

MinChars == 2

TooShort_nostrip(q) == ~Truthy(q) \/ Len(q.str) < MinChars

\* not question or len(question.strip()) < 2, for a string question
TooShort(q) == ~Truthy(q) \/ Len(strip(q.str)) < MinChars

\* lines 101-125 of chat once the body has arrived: "raise" (unhandled
\* exception), "validation" or "valid"
Validate(b) ==
    IF b.json # "object" THEN "raise"
    ELSE LET q == get_message(b) IN
         IF ~Truthy(q) THEN "validation"
         ELSE IF q.type # "str" THEN "raise"
         ELSE IF TooShort(q) THEN "validation"
         ELSE "valid"

\* ------------------------------------------------- index provisioning
ExceptIndex_keep(idx) == idx

\* except Exception: index = None
ExceptIndex(idx) == "None"

\* if index:
IndexTruthy(idx) == idx = "Index"

\* index.as_query_engine(...) if index else None
MakeQueryEngine(idx) == IF IndexTruthy(idx) THEN "Engine" ELSE "None"

\* if not Path(STORAGE_DIR).exists()
CheckStorage ==
    /\ spc = "start"
    /\ \E e \in BOOLEAN :
        /\ storage_exists' = e
        /\ spc' = IF e THEN "load_ctx" ELSE "build_read"
    /\ UNCHANGED <<index, query_engine, setup_raised, semVars, reqVars>>

\* build branch: load_data, get_nodes_from_documents, VectorStoreIndex,
\* persist; each call returns or raises
BuildStep ==
    /\ spc \in {"build_read", "build_nodes", "build_index", "build_persist"}
    /\ \E ok \in BOOLEAN :
        IF ~ok
        THEN /\ spc' = "except"
             /\ setup_raised' = TRUE
             /\ UNCHANGED <<index, storage_exists>>
        ELSE /\ spc' = CASE spc = "build_read" -> "build_nodes"
                         [] spc = "build_nodes" -> "build_index"
                         [] spc = "build_index" -> "build_persist"
                         [] OTHER -> "engine"
             /\ index' = IF spc = "build_index" THEN "Index" ELSE index
             /\ storage_exists' =
                    IF spc = "build_persist" THEN TRUE ELSE storage_exists
             /\ UNCHANGED setup_raised
    /\ UNCHANGED <<query_engine, semVars, reqVars>>

\* load branch: StorageContext.from_defaults, load_index_from_storage
LoadStep ==
    /\ spc \in {"load_ctx", "load_index"}
    /\ \E ok \in BOOLEAN :
        IF ~ok
        THEN /\ spc' = "except"
             /\ setup_raised' = TRUE
             /\ UNCHANGED index
        ELSE /\ spc' = IF spc = "load_ctx" THEN "load_index" ELSE "engine"
             /\ index' = IF spc = "load_index" THEN "Index" ELSE index
             /\ UNCHANGED setup_raised
    /\ UNCHANGED <<storage_exists, query_engine, semVars, reqVars>>

SetupExcept ==
    /\ spc = "except"
    /\ index' = ExceptIndex(index)
    /\ spc' = "engine"
    /\ UNCHANGED <<storage_exists, query_engine, setup_raised, semVars,
                   reqVars>>

QueryEngineSetup ==
    /\ spc = "engine"
    /\ query_engine' = MakeQueryEngine(index)
    /\ spc' = "serving"
    /\ UNCHANGED <<storage_exists, index, setup_raised, semVars, reqVars>>

\* ------------------------------------------------------- the semaphore
\* asyncio.Semaphore(2)
SemaphoreInitial == 2

Sem == [value |-> sem_value, waiters |-> sem_waiters, woken |-> sem_woken]

SetSem(s) ==
    /\ sem_value' = s.value
    /\ sem_waiters' = s.waiters
    /\ sem_woken' = s.woken

\* Semaphore.locked(): no free slot, or somebody already queued
locked(s) == s.value = 0 \/ s.waiters # <<>>

Pending(s) == {i \in 1..Len(s.waiters) : s.waiters[i] \notin s.woken}

wake_up_next_lost(s) == s

\* Semaphore._wake_up_next(): hand a slot to the oldest unresolved waiter
wake_up_next(s) ==
    IF Pending(s) = {} THEN s
    ELSE LET i == CHOOSE j \in Pending(s) : \A k \in Pending(s) : j <= k
         IN [s EXCEPT !.value = @ - 1, !.woken = @ \cup {s.waiters[i]}]

\* Semaphore.release()
release(s) == wake_up_next([s EXCEPT !.value = @ + 1])

aexit_leak(s, raised) == IF raised THEN s ELSE release(s)

\* async with semaphore: __aexit__ runs on return and on exception alike
aexit(s, raised) == release(s)

Remove(seq, r) == SelectSeq(seq, LAMBDA x : x # r)

\* the tail of Semaphore.acquire() once the waiter's future is resolved
resume(s, r) ==
    LET t == [s EXCEPT !.waiters = Remove(@, r), !.woken = @ \ {r}]
    IN IF t.value > 0 THEN wake_up_next(t) ELSE t

\* ------------------------------------------------------------ GET /
\* returns the static payload; reads and writes no state
root ==
    /\ spc = "serving"
    /\ UNCHANGED <<startupVars, semVars, reqVars>>

\* ------------------------------------------------------------ POST /chat
EngineUnavailable_unchecked(qe) == FALSE

\* if not query_engine:
EngineUnavailable(qe) == qe # "Engine"

\* entry of chat up to its first suspension point
Chat(r) ==
    /\ spc = "serving"
    /\ pc[r] = "idle"
    /\ IF EngineUnavailable(query_engine)
       THEN /\ pc' = [pc EXCEPT ![r] = "index_error_stream"]
            /\ status' = [status EXCEPT ![r] = 200]
            /\ UNCHANGED <<semVars, suspended>>
       ELSE IF ~locked(Sem)
       THEN /\ sem_value' = sem_value - 1
            /\ pc' = [pc EXCEPT ![r] = "read_body"]
            /\ UNCHANGED <<sem_waiters, sem_woken, suspended, status>>
       ELSE /\ sem_waiters' = Append(sem_waiters, r)
            /\ pc' = [pc EXCEPT ![r] = "waiting"]
            /\ suspended' = suspended \cup {r}
            /\ UNCHANGED <<sem_value, sem_woken, status>>
    /\ UNCHANGED <<startupVars, body, out, produced, queries, fin>>

\* a suspended request continues once release() resolved its future
Resume(r) ==
    /\ pc[r] = "waiting"
    /\ r \in sem_woken
    /\ SetSem(resume(Sem, r))
    /\ pc' = [pc EXCEPT ![r] = "read_body"]
    /\ UNCHANGED <<startupVars, body, status, out, produced, queries, fin,
                   suspended>>

\* await request.json() completes; the handler then runs to its return (or
\* to an unhandled exception) without suspending, leaving the async with
ChatValidate(r) ==
    /\ pc[r] = "read_body"
    /\ \E b \in Bodies :
        LET v == Validate(b) IN
        /\ body' = [body EXCEPT ![r] = b]
        /\ SetSem(aexit(Sem, v = "raise"))
        /\ pc' = [pc EXCEPT ![r] =
                    CASE v = "raise" -> "failed"
                      [] v = "validation" -> "validation_error_stream"
                      [] OTHER -> "event_stream"]
        /\ status' = [status EXCEPT ![r] = IF v = "raise" THEN 500 ELSE 200]
    /\ suspended' = suspended \ {r}
    /\ UNCHANGED <<startupVars, out, produced, queries, fin>>

Yield_front(stream, item) == <<item>> \o stream

\* yield <item> of an async generator: the item goes onto the response
Yield(stream, item) == Append(stream, item)

index_error_stream(r) ==
    /\ pc[r] = "index_error_stream"
    /\ out' = [out EXCEPT ![r] = Yield(@, INDEX_ERROR)]
    /\ pc' = [pc EXCEPT ![r] = "closed"]
    /\ UNCHANGED <<startupVars, semVars, body, status, produced, queries,
                   fin, suspended>>

validation_error_stream(r) ==
    /\ pc[r] = "validation_error_stream"
    /\ out' = [out EXCEPT ![r] = Yield(@, VALIDATION_ERROR)]
    /\ pc' = [pc EXCEPT ![r] = "closed"]
    /\ UNCHANGED <<startupVars, semVars, body, status, produced, queries,
                   fin, suspended>>

ExceptYield_silent(stream) == stream

\* except Exception: yield the apology; the generator then ends
ExceptYield(stream) == Yield(stream, APOLOGY)

\* event_stream, first step: query_engine.query(question) returns the
\* streaming response or raises
event_stream_query(r) ==
    /\ pc[r] = "event_stream"
    /\ queries' = [queries EXCEPT ![r] = @ + 1]
    /\ \E ok \in BOOLEAN :
        IF ok
        THEN /\ pc' = [pc EXCEPT ![r] = "generating"]
             /\ UNCHANGED <<out, fin>>
        ELSE /\ out' = [out EXCEPT ![r] = ExceptYield(@)]
             /\ fin' = [fin EXCEPT ![r] = "raised"]
             /\ pc' = [pc EXCEPT ![r] = "closed"]
    /\ UNCHANGED <<startupVars, semVars, body, status, produced, suspended>>

\* event_stream, one turn of the for loop: response_gen hands out the next
\* token, is exhausted, or raises
event_stream_next(r) ==
    /\ pc[r] = "generating"
    /\ \E step \in {"token", "stop", "raise"} :
        CASE step = "token" ->
                /\ Len(produced[r]) < MaxTokens
                /\ LET t == Token(Len(produced[r]) + 1) IN
                    /\ produced' = [produced EXCEPT ![r] = Append(@, t)]
                    /\ out' = [out EXCEPT ![r] = Yield(@, t)]
                /\ UNCHANGED <<pc, fin>>
          [] step = "stop" ->
                /\ pc' = [pc EXCEPT ![r] = "closed"]
                /\ fin' = [fin EXCEPT ![r] = "exhausted"]
                /\ UNCHANGED <<out, produced>>
          [] OTHER ->
                /\ out' = [out EXCEPT ![r] = ExceptYield(@)]
                /\ fin' = [fin EXCEPT ![r] = "raised"]
                /\ pc' = [pc EXCEPT ![r] = "closed"]
                /\ UNCHANGED produced
    /\ UNCHANGED <<startupVars, semVars, body, status, queries, suspended>>

\* ------------------------------------------------------- specification
Init ==
    /\ spc = "start"
    /\ storage_exists = FALSE
    /\ index = "unbound"
    /\ query_engine = "unbound"
    /\ setup_raised = FALSE
    /\ sem_value = SemaphoreInitial
    /\ sem_waiters = <<>>
    /\ sem_woken = {}
    /\ pc = [r \in Reqs |-> "idle"]
    /\ body = [r \in Reqs |-> Unread]
    /\ status = [r \in Reqs |-> 0]
    /\ out = [r \in Reqs |-> <<>>]
    /\ produced = [r \in Reqs |-> <<>>]
    /\ queries = [r \in Reqs |-> 0]
    /\ fin = [r \in Reqs |-> ""]
    /\ suspended = {}

Next ==
    \/ CheckStorage
    \/ BuildStep
    \/ LoadStep
    \/ SetupExcept
    \/ QueryEngineSetup
    \/ root
    \/ \E r \in Reqs : Chat(r)
    \/ \E r \in Reqs : Resume(r)
    \/ \E r \in Reqs : ChatValidate(r)
    \/ \E r \in Reqs : index_error_stream(r)
    \/ \E r \in Reqs : validation_error_stream(r)
    \/ \E r \in Reqs : event_stream_query(r)
    \/ \E r \in Reqs : event_stream_next(r)

Spec == Init /\ [][Next]_vars

\* a step of a coroutine that is inside the chat handler
HandlerStep == \E r \in Reqs : Resume(r) \/ ChatValidate(r)

\* a step of a response stream being sent
StreamStep ==
    \E r \in Reqs :
        \/ index_error_stream(r)
        \/ validation_error_stream(r)
        \/ event_stream_query(r)
        \/ event_stream_next(r)

\* the event loop does not stop while a coroutine is ready to run and the
\* body of a request arrives; whether a request arrives at all is up to
\* the clients
LiveSpec == Spec /\ WF_vars(HandlerStep) /\ WF_vars(StreamStep)

\* ------------------------------------------------------------ properties
\* requests that own a slot of the semaphore: inside the async with, or
\* resolved by release() and about to enter it
Holders == {r \in Reqs : pc[r] = "read_body"} \cup sem_woken

Generating == {r \in Reqs : pc[r] = "generating"}

\* the handler has left the async with for this request
Released(r) == body[r].json # "unread"

\* the message is missing, empty, or shorter than 2 characters once trimmed
InvalidMessage(b) ==
    /\ b.json = "object"
    /\ \/ ~b.has
       \/ /\ b.msg.type = "str"
          /\ \/ b.msg.str = <<>>
             \/ Len(strip(b.msg.str)) < 2

\* the message is a string of at least 2 characters once trimmed
ValidMessage(b) ==
    /\ b.json = "object"
    /\ b.has
    /\ b.msg.type = "str"
    /\ Len(strip(b.msg.str)) >= 2

\* not JSON, not a JSON object, or a message that is not a string
Malformed(b) ==
    \/ b.json \in {"invalid", "array"}
    \/ b.json = "object" /\ b.has /\ b.msg.type # "str"

\* C1: with the engine available at most 2 requests are in their
\* generation phase at any time.
C1_GenerationBounded == Cardinality(Generating) <= 2

\* C2: a request's slot is released only after its response stream has
\* ended (generator exhausted or errored).
C2_HeldUntilStreamEnd ==
    \A r \in Reqs : (Released(r) /\ status[r] = 200) => pc[r] = "closed"

\* C3: without a query engine every chat request streams exactly the
\* degraded-mode text, with status 200, and neither takes a slot, nor reads
\* its body, nor calls the engine.
C3_Degraded ==
    \A r \in Reqs :
        (spc = "serving" /\ query_engine = "None" /\ pc[r] # "idle") =>
            /\ pc[r] \in {"index_error_stream", "closed"}
            /\ status[r] = 200
            /\ out[r] = IF pc[r] = "closed" THEN <<INDEX_ERROR>> ELSE <<>>
            /\ body[r] = Unread
            /\ queries[r] = 0
            /\ r \notin Holders
            /\ sem_value = SemaphoreInitial
            /\ sem_waiters = <<>>

C3_Witness ==
    \E r \in Reqs :
        /\ query_engine = "None"
        /\ pc[r] = "closed"
        /\ out[r] = <<INDEX_ERROR>>

\* C4: with the engine available, a request whose message is missing,
\* empty or shorter than 2 characters after trimming streams exactly the
\* validation-error text, never calls the engine, and has given its slot
\* back.
C4_Validation ==
    \A r \in Reqs :
        (query_engine = "Engine" /\ InvalidMessage(body[r])) =>
            /\ pc[r] \in {"validation_error_stream", "closed"}
            /\ status[r] = 200
            /\ out[r] = IF pc[r] = "closed" THEN <<VALIDATION_ERROR>> ELSE <<>>
            /\ queries[r] = 0
            /\ produced[r] = <<>>
            /\ r \notin Holders
            /\ sem_value + Cardinality(Holders) = 2

C4_Witness ==
    \E r \in Reqs :
        /\ body[r].has
        /\ body[r].msg.type = "str"
        /\ Len(body[r].msg.str) = 2
        /\ Len(strip(body[r].msg.str)) = 1
        /\ pc[r] = "closed"
        /\ out[r] = <<VALIDATION_ERROR>>

\* C5 as stated: a valid message on a healthy engine gets a non-empty
\* stream that is not just one of the fixed error texts.
C5_NeverOnlyErrorText ==
    \A r \in Reqs :
        (ValidMessage(body[r]) /\ pc[r] = "closed") =>
            /\ out[r] # <<>>
            /\ out[r] \notin {<<INDEX_ERROR>>, <<VALIDATION_ERROR>>, <<APOLOGY>>}

\* C5 amended: a valid message on a healthy engine gets the generator's
\* tokens in order, followed by the apology exactly when the query or the
\* generator raised; the stream is non-empty exactly when a token was
\* yielded or an error was raised, and it is never the degraded-mode or the
\* validation-error text.
C5_TokensThenApologyOnError ==
    \A r \in Reqs :
        (ValidMessage(body[r]) /\ pc[r] = "closed") =>
            /\ query_engine = "Engine"
            /\ status[r] = 200
            /\ fin[r] \in {"exhausted", "raised"}
            /\ out[r] = produced[r] \o
                        (IF fin[r] = "raised" THEN <<APOLOGY>> ELSE <<>>)
            /\ (out[r] # <<>>) <=> (produced[r] # <<>> \/ fin[r] = "raised")
            /\ out[r] \notin {<<INDEX_ERROR>>, <<VALIDATION_ERROR>>}

C5_Witness ==
    \E r \in Reqs :
        /\ ValidMessage(body[r])
        /\ pc[r] = "closed"
        /\ fin[r] = "raised"
        /\ produced[r] = <<>>
        /\ out[r] = <<APOLOGY>>

\* C6: when the query or its token generator raises, the stream is the
\* tokens already yielded, in order, then one apology, and then it ends:
\* nothing is appended afterwards and the query is made once.
C6_ApologyAfterPartial ==
    /\ [](\A r \in Reqs :
            fin[r] = "raised" =>
                /\ pc[r] = "closed"
                /\ out[r] = produced[r] \o <<APOLOGY>>
                /\ \A i \in 1..Len(produced[r]) : produced[r][i] = Token(i)
                /\ queries[r] = 1)
    /\ [][\A r \in Reqs :
            fin[r] = "raised" =>
                /\ out'[r] = out[r]
                /\ queries'[r] = queries[r]
                /\ pc'[r] = pc[r]]_vars

C6_Witness ==
    \E r \in Reqs :
        /\ fin[r] = "raised"
        /\ Len(produced[r]) = 2
        /\ out[r] = <<Token(1), Token(2), APOLOGY>>

\* C7: malformed input is answered with status 200 and the validation
\* notice, never with an HTTP error status.
C7_MalformedInBand ==
    \A r \in Reqs :
        (Released(r) /\ Malformed(body[r])) =>
            /\ status[r] = 200
            /\ pc[r] = "closed" => out[r] = <<VALIDATION_ERROR>>

\* C8: a failure while provisioning leaves index and query_engine None;
\* the engine exists exactly when provisioning succeeded; once the service
\* is up nothing changes index or query_engine.
C8_Provisioning ==
    /\ [](spc = "serving" =>
            /\ setup_raised => (index = "None" /\ query_engine = "None")
            /\ (query_engine = "Engine") <=> ~setup_raised
            /\ query_engine \in {"None", "Engine"})
    /\ [][spc = "serving" =>
            (index' = index /\ query_engine' = query_engine
             /\ spc' = spc)]_vars

C8_Witness ==
    /\ spc = "serving"
    /\ setup_raised
    /\ ~storage_exists
    /\ query_engine = "None"
    /\ \E r \in Reqs : pc[r] = "closed"

\* C9: between 0 and 2 requests hold a slot, and the free-slot count is 2
\* minus the number of holders.
C9_Gate ==
    /\ Cardinality(Holders) \in 0..2
    /\ sem_value = 2 - Cardinality(Holders)

C9_Witness ==
    /\ Cardinality(Holders) = 2
    /\ sem_value = 0
    /\ sem_woken # {}
    /\ \E r \in Reqs : pc[r] = "failed"

\* C10: a request suspended on the saturated gate is eventually admitted,
\* however the earlier holders left the handler, and when no request is
\* inside the handler both slots are free.  A request is suspended at most
\* once and leaves "waiting" only by being admitted, so "every suspended
\* request is eventually admitted" is "from some point on no request is
\* suspended".
C10_Admission ==
    /\ <>[](\A r \in Reqs : pc[r] # "waiting")
    /\ []((\A r \in Reqs : pc[r] \notin {"waiting", "read_body"}) =>
            (sem_value = 2 /\ sem_waiters = <<>> /\ sem_woken = {}))

C10_Witness ==
    \E r \in suspended, h \in Reqs :
        /\ pc[r] = "read_body"
        /\ pc[h] = "failed"
====
